---------------------------- MODULE Spec2Model ----------------------------
(***************************************************************************)
(* A model of the reporter-training layer job of elk                       *)
(* (src/elk/training/train.py, Elicit.apply_to_layer) and of the Burns     *)
(* normalisation (src/elk/training/burns_norm.py, BurnsNorm.forward).      *)
(*                                                                         *)
(* Spec       one layer job, every configuration within the bounds         *)
(* SpecSweep  several layer jobs of one run, sharing out_dir, interleaved  *)
(* SpecNorm   BurnsNorm.forward applied to every tensor within the bounds  *)
(***************************************************************************)
EXTENDS Integers, Sequences, FiniteSets, TLC

VARIABLES
    net,         \* self.net: which reporter config the run carries
    supervised,  \* self.supervised
    train_dict,  \* prepare_data(device, layer, "train"): name and shape per dataset
    val_dict,    \* prepare_data(device, layer, "val")
    jobs,        \* the layer jobs of the run (calls of apply_to_layer)
    layer,       \* layer[j]: the layer argument of job j
    pc,          \* pc[j]: the statement job j is at
    err,         \* err[j]: the exception that ended job j, or NoError
    calls,       \* calls[j]: the reporter / collaborator calls job j has made, in order
    loc,         \* loc[j]: the locals train_loss, pseudo_auroc, lr_models, loop index
    rows,        \* rows[j]: row_bufs, one sequence of rows per table
    fs,          \* the operations done on out_dir: mkdir and write, with the job doing it
    x,           \* BurnsNorm.forward: the input tensor, indexed [n][v][d]
    scale,       \* BurnsNorm.scale
    norm_pc,     \* BurnsNorm.forward: "idle" before the call, "returned" after
    norm_out,    \* BurnsNorm.forward: the returned tensor
    lp_args,     \* load_prompts: the arguments num_classes, num_variants, num_shots
    lp_data,     \* load_prompts: what each dataset string loads (one record per dataset)
    lp_pc,       \* load_prompts: the statement the generator is at
    lp_err,      \* load_prompts: the exception that ended the generator, or NoError
    lp_loc,      \* load_prompts: the locals num_classes, class_counts, num_variants,
                 \*   the loop index, the cycle position and each iterator's position
    lp_out,      \* load_prompts: the examples yielded so far, in order
    pl_overwrite, \* Plot.overwrite
    pl_sweeps,   \* Plot.sweeps
    pl_dirs,     \* the sweeps that exist under sweeps_dir()
    pl_viz,      \* the sweeps that hold a viz directory
    pl_pc,       \* Plot.execute: the statement it is at
    pl_err,      \* Plot.execute: the exception that ended it, or NoError
    pl_log,      \* Plot.execute: pretty_error, rmtree and visualize_sweep calls, in order
    ex_prompts,  \* extraction: args.prompts
    ex_pc,       \* extraction: per rank, the statement it is at
    ex_split,    \* extraction: per rank, the split being extracted
    ex_arrived,  \* extraction: per rank, the number of collectives entered
    ex_buf,      \* extraction: tensors handed to the collectives, <<collective, rank, tensor>>
    ex_loc,      \* extraction: per rank, the locals hiddens and labels
    ex_files,    \* extraction: content of each file of save_dir
    ex_err,      \* extraction: per rank, the exception that ended it, or NoError
    ex_events    \* extraction: what each rank has done to each split or file so far

trainVars == <<net, supervised, train_dict, val_dict, jobs, layer, pc, err, calls, loc, rows, fs>>
normVars == <<x, scale, norm_pc, norm_out>>
promptVars == <<lp_args, lp_data, lp_pc, lp_err, lp_loc, lp_out>>
plotVars == <<pl_overwrite, pl_sweeps, pl_dirs, pl_viz, pl_pc, pl_err, pl_log>>
extractVars == <<ex_prompts, ex_pc, ex_split, ex_arrived, ex_buf, ex_loc, ex_files, ex_err,
                 ex_events>>
vars == <<net, supervised, train_dict, val_dict, jobs, layer, pc, err, calls, loc, rows, fs,
          x, scale, norm_pc, norm_out,
          lp_args, lp_data, lp_pc, lp_err, lp_loc, lp_out,
          pl_overwrite, pl_sweeps, pl_dirs, pl_viz, pl_pc, pl_err, pl_log,
          ex_prompts, ex_pc, ex_split, ex_arrived, ex_buf, ex_loc, ex_files, ex_err,
          ex_events>>

---------------------------------------------------------------------------
(* Bounds of the model *)

MaxDs == 2        \* datasets per train / val dict
MaxModels == 2    \* models train_supervised may return
MaxLayer == 1     \* layer indices 0..MaxLayer
NJobs == 2        \* concurrent layer jobs in SpecSweep
MaxN == 2         \* entries along the pooling axis N of a normalised tensor
MaxPromptDs == 2  \* dataset strings given to load_prompts
MaxExamples == 2  \* examples a dataset's sampler yields
MaxSweeps == 2    \* sweep names given to Plot
NRanks == 2       \* processes of a distributed extraction

---------------------------------------------------------------------------
(* Configuration of a run *)

NetKinds == {"ccs", "eigen", "other"}

SupervisedModes == {"none", "single", "inlp", "cv"}

DsName(i) == <<"ds", i>>

SeqsUpTo(S, n) == UNION {[1..m -> S] : m \in 0..n}

\* (V, K, D) of a training tensor: shapes that agree on D and differ in V and K,
\* K = 2 and K /= 2, and one of another D
TrainShapes ==
    {[v |-> 1, k |-> 2, d |-> 1], [v |-> 2, k |-> 2, d |-> 1],
     [v |-> 2, k |-> 3, d |-> 1], [v |-> 1, k |-> 2, d |-> 2]}

\* D of a validation tensor, and whether the upstream model's predictions come with it
ValShapes == {[d |-> 1, lm |-> FALSE], [d |-> 1, lm |-> TRUE], [d |-> 2, lm |-> FALSE]}

TrainDicts ==
    {[i \in 1..Len(s) |-> [name |-> DsName(i), v |-> s[i].v, k |-> s[i].k, d |-> s[i].d]] :
        s \in SeqsUpTo(TrainShapes, MaxDs)}

ValDicts ==
    {[i \in 1..Len(s) |-> [name |-> DsName(i), d |-> s[i].d, lm |-> s[i].lm]] :
        s \in SeqsUpTo(ValShapes, MaxDs)}

---------------------------------------------------------------------------
(* Errors *)

NoError == [kind |-> "none", msg |-> "", names |-> {}]

\* line 65: unpacking an empty train_dict.values()
EmptyTrainError == [kind |-> "ValueError", msg |-> "not enough values to unpack", names |-> {}]

\* line 68
WidthError ==
    [kind |-> "ValueError", msg |-> "All datasets must have the same hidden state size",
     names |-> {}]

\* line 72
CcsMultiError ==
    [kind |-> "AssertionError", msg |-> "CCS only supports single-task training", names |-> {}]

\* line 116
UnknownTypeError ==
    [kind |-> "ValueError", msg |-> "Unknown reporter config type", names |-> {}]

\* line 77: next(iter(val_dict.values())) on an empty val_dict
NoValError == [kind |-> "StopIteration", msg |-> "", names |-> {}]

\* lines 78-79: x0, x1 = h.unbind(2) with K /= 2
UnbindError == [kind |-> "ValueError", msg |-> "too many values to unpack", names |-> {}]

---------------------------------------------------------------------------
(* Paths under out_dir *)

LrDir == <<"lr_models">>

ReporterDir == <<"reporters">>

CfgPath == ReporterDir \o <<"cfg.yaml">>

\* variant: the checkpoint name without the layer index
ReporterPathNoLayer(l) == ReporterDir \o <<"layer_", ".pt">>
\* line 119: reporter_dir / f"layer_{layer}.pt"
ReporterPath(l) == ReporterDir \o <<"layer_", l, ".pt">>

\* line 128: lr_dir / f"layer_{layer}.pt"
LrPath(l) == LrDir \o <<"layer_", l, ".pt">>

Mkdir(j, p) == [op |-> "mkdir", path |-> p, job |-> j, content |-> "dir"]

Write(j, p, c) == [op |-> "write", path |-> p, job |-> j, content |-> c]


---------------------------------------------------------------------------
(* Elicit.apply_to_layer, one action per statement group *)

Call(o, a) == [op |-> o, arg |-> a]

NoLocals == [train_loss |-> "unset", pseudo_auroc |-> "unset", lr_models |-> 0, idx |-> 1]

NoRows == [eval |-> <<>>, lm_eval |-> <<>>, lr_eval |-> <<>>]

Goto(j, label) == pc' = [pc EXCEPT ![j] = label]

Raise(j, e) ==
    /\ pc' = [pc EXCEPT ![j] = "failed"]
    /\ err' = [err EXCEPT ![j] = e]

Log(j, cs) == calls' = [calls EXCEPT ![j] = @ \o cs]

\* variant: the comparison made on the K axis
SameWidthWrongAxis == \A i \in 2..Len(train_dict) : train_dict[i].k = train_dict[1].k
\* line 67: all(other_h.shape[-1] == d for other_h, _, _ in rest), d the first dataset's
SameWidth == \A i \in 2..Len(train_dict) : train_dict[i].d = train_dict[1].d

\* variant: any non-empty train_dict accepted
CcsSingleTaskAtLeastOne == Len(train_dict) >= 1
\* line 72: assert len(train_dict) == 1
CcsSingleTask == Len(train_dict) = 1

\* lines 59-68: seed, device, prepare_data, and the width check
CheckWidth(j) ==
    /\ pc[j] = "start"
    /\ IF Len(train_dict) = 0
         THEN Raise(j, EmptyTrainError)
         ELSE IF ~SameWidth
                THEN Raise(j, WidthError)
                ELSE Goto(j, "mk_lr_dir") /\ UNCHANGED err
    /\ UNCHANGED <<normVars, promptVars, plotVars, extractVars,
                   net, supervised, train_dict, val_dict, jobs, layer, calls, loc, rows, fs>>

\* line 42 (create_models_dir, called at line 70)
MkLrDir(j) ==
    /\ pc[j] = "mk_lr_dir"
    /\ fs' = fs \cup {Mkdir(j, LrDir)}
    /\ Goto(j, "mk_reporter_dir")
    /\ UNCHANGED <<normVars, promptVars, plotVars, extractVars,
                   net, supervised, train_dict, val_dict, jobs, layer, err, calls, loc, rows>>

\* line 43
MkReporterDir(j) ==
    /\ pc[j] = "mk_reporter_dir"
    /\ fs' = fs \cup {Mkdir(j, ReporterDir)}
    /\ Goto(j, "save_cfg")
    /\ UNCHANGED <<normVars, promptVars, plotVars, extractVars,
                   net, supervised, train_dict, val_dict, jobs, layer, err, calls, loc, rows>>

\* line 47: save(self.net, reporter_dir / "cfg.yaml")
SaveCfg(j) ==
    /\ pc[j] = "save_cfg"
    /\ fs' = fs \cup {Write(j, CfgPath, net)}
    /\ Goto(j, "dispatch")
    /\ UNCHANGED <<normVars, promptVars, plotVars, extractVars,
                   net, supervised, train_dict, val_dict, jobs, layer, err, calls, loc, rows>>

\* lines 71-74, 91-95, 115-116: the branch on the reporter config's type
Dispatch(j) ==
    /\ pc[j] = "dispatch"
    /\ CASE net = "ccs" ->
              IF ~CcsSingleTask
                THEN Raise(j, CcsMultiError) /\ UNCHANGED calls
                ELSE /\ Log(j, <<Call("CcsReporter", [d |-> train_dict[1].d])>>)
                     /\ Goto(j, "ccs_fit")
                     /\ UNCHANGED err
         [] net = "eigen" ->
              /\ Log(j, <<Call("EigenReporter",
                               [d |-> train_dict[1].d, num_classes |-> "None"])>>)
              /\ Goto(j, "eigen_update")
              /\ UNCHANGED err
         [] OTHER -> Raise(j, UnknownTypeError) /\ UNCHANGED calls
    /\ loc' = [loc EXCEPT ![j].idx = 1]
    /\ UNCHANGED <<normVars, promptVars, plotVars, extractVars,
                   net, supervised, train_dict, val_dict, jobs, layer, rows, fs>>

\* line 75: train_loss = reporter.fit(first_train_h, train_gt)
CcsFit(j) ==
    /\ pc[j] = "ccs_fit"
    /\ Log(j, <<Call("fit", train_dict[1])>>)
    /\ loc' = [loc EXCEPT ![j].train_loss = "ccs_loss"]
    /\ Goto(j, "ccs_sep")
    /\ UNCHANGED <<normVars, promptVars, plotVars, extractVars,
                   net, supervised, train_dict, val_dict, jobs, layer, err, rows, fs>>

\* lines 77-83: the first validation dataset, the unbinds, check_separability
CcsSeparability(j) ==
    /\ pc[j] = "ccs_sep"
    /\ IF Len(val_dict) = 0
         THEN Raise(j, NoValError) /\ UNCHANGED <<calls, loc>>
         ELSE IF train_dict[1].k # 2
                THEN Raise(j, UnbindError) /\ UNCHANGED <<calls, loc>>
                ELSE /\ Log(j, <<Call("check_separability",
                                      <<train_dict[1].name, val_dict[1].name>>)>>)
                     /\ loc' = [loc EXCEPT ![j].pseudo_auroc = "pseudo"]
                     /\ Goto(j, "ccs_platt")
                     /\ UNCHANGED err
    /\ UNCHANGED <<normVars, promptVars, plotVars, extractVars,
                   net, supervised, train_dict, val_dict, jobs, layer, rows, fs>>

\* lines 85-89
CcsPlatt(j) ==
    /\ pc[j] = "ccs_platt"
    /\ Log(j, <<Call("platt_scale", <<train_dict[1]>>)>>)
    /\ Goto(j, "save")
    /\ UNCHANGED <<normVars, promptVars, plotVars, extractVars,
                   net, supervised, train_dict, val_dict, jobs, layer, err, loc, rows, fs>>

\* variant: every update given the first dataset's tensor
EigenUpdateFirstTensor(j) ==
    /\ pc[j] = "eigen_update"
    /\ loc[j].idx <= Len(train_dict)
    /\ Log(j, <<Call("update", train_dict[1])>>)
    /\ loc' = [loc EXCEPT ![j].idx = @ + 1]
    /\ UNCHANGED <<normVars, promptVars, plotVars, extractVars,
                   net, supervised, train_dict, val_dict, jobs, layer, pc, err, rows, fs>>
\* lines 98-107: one iteration of the loop over train_dict.items()
EigenUpdate(j) ==
    /\ pc[j] = "eigen_update"
    /\ loc[j].idx <= Len(train_dict)
    /\ Log(j, <<Call("update", train_dict[loc[j].idx])>>)
    /\ loc' = [loc EXCEPT ![j].idx = @ + 1]
    /\ UNCHANGED <<normVars, promptVars, plotVars, extractVars,
                   net, supervised, train_dict, val_dict, jobs, layer, pc, err, rows, fs>>

\* variant: the reporter saved right after fit_streaming, uncalibrated
EigenFitSkipsPlatt(j) ==
    /\ pc[j] = "eigen_update"
    /\ loc[j].idx > Len(train_dict)
    /\ Log(j, <<Call("fit_streaming", <<>>)>>)
    /\ loc' = [loc EXCEPT ![j].pseudo_auroc = "None", ![j].train_loss = "eigen_loss"]
    /\ Goto(j, "save")
    /\ UNCHANGED <<normVars, promptVars, plotVars, extractVars,
                   net, supervised, train_dict, val_dict, jobs, layer, err, rows, fs>>
\* lines 109-110, once the loop is exhausted
EigenFit(j) ==
    /\ pc[j] = "eigen_update"
    /\ loc[j].idx > Len(train_dict)
    /\ Log(j, <<Call("fit_streaming", <<>>)>>)
    /\ loc' = [loc EXCEPT ![j].pseudo_auroc = "None", ![j].train_loss = "eigen_loss"]
    /\ Goto(j, "eigen_platt")
    /\ UNCHANGED <<normVars, promptVars, plotVars, extractVars,
                   net, supervised, train_dict, val_dict, jobs, layer, err, rows, fs>>

\* lines 111-114: platt_scale on the concatenation over all training datasets
EigenPlatt(j) ==
    /\ pc[j] = "eigen_platt"
    /\ Log(j, <<Call("platt_scale", train_dict)>>)
    /\ Goto(j, "save")
    /\ UNCHANGED <<normVars, promptVars, plotVars, extractVars,
                   net, supervised, train_dict, val_dict, jobs, layer, err, loc, rows, fs>>

\* line 119: reporter.save(reporter_dir / f"layer_{layer}.pt")
SaveReporter(j) ==
    /\ pc[j] = "save"
    /\ Log(j, <<Call("save", ReporterPath(layer[j]))>>)
    /\ fs' = fs \cup {Write(j, ReporterPath(layer[j]), "reporter")}
    /\ Goto(j, "supervised")
    /\ UNCHANGED <<normVars, promptVars, plotVars, extractVars,
                   net, supervised, train_dict, val_dict, jobs, layer, err, loc, rows>>

\* lines 122-131: the supervised baseline; train_supervised returns m models
TrainSupervised(j) ==
    /\ pc[j] = "supervised"
    /\ IF supervised # "none"
         THEN \E m \in 0..MaxModels :
                /\ Log(j, <<Call("train_supervised", supervised)>>)
                /\ fs' = fs \cup {Write(j, LrPath(layer[j]), "lr_models")}
                /\ loc' = [loc EXCEPT ![j].lr_models = m, ![j].idx = 1]
         ELSE /\ loc' = [loc EXCEPT ![j].lr_models = 0, ![j].idx = 1]
              /\ UNCHANGED <<calls, fs>>
    /\ Goto(j, "eval")
    /\ UNCHANGED <<normVars, promptVars, plotVars, extractVars,
                   net, supervised, train_dict, val_dict, jobs, layer, err, rows>>

---------------------------------------------------------------------------
(* Result rows, lines 133-157 *)

\* EvalResult.to_dict() of elk.metrics: the evaluator's fields
EvalResultToDict(what) == [accuracy |-> <<"accuracy", what>>, auroc |-> <<"auroc", what>>]

\* {**a, **b}: the keys of both, b's value where both have the key
DictMerge(a, b) == b @@ a

\* line 135
Meta(j, ds) == [dataset |-> ds.name, layer |-> layer[j]]

\* variant: the eval row without train_loss
EvalRowNoLoss(j, ds) ==
    DictMerge(DictMerge(Meta(j, ds), [pseudo_auroc |-> loc[j].pseudo_auroc]),
              EvalResultToDict("reporter"))
\* lines 139-144
EvalRow(j, ds) ==
    DictMerge(DictMerge(Meta(j, ds),
                        [pseudo_auroc |-> loc[j].pseudo_auroc,
                         train_loss |-> loc[j].train_loss]),
              EvalResultToDict("reporter"))

\* line 149
LmEvalRow(j, ds) == DictMerge(Meta(j, ds), EvalResultToDict("lm"))

\* line 154, i the index enumerate() gives the model
LrEvalRow(j, ds, i) ==
    DictMerge(DictMerge([inlp_iter |-> i], Meta(j, ds)), EvalResultToDict("lr"))

\* variant: the models counted from 1
LrRowsFromOne(j, ds, m) == [i \in 1..m |-> LrEvalRow(j, ds, i)]
\* lines 151-155: for i, model in enumerate(lr_models)
LrRows(j, ds, m) == [i \in 1..m |-> LrEvalRow(j, ds, i - 1)]

\* line 147: if val_lm_preds is not None
LmRows(j, ds) == IF ds.lm THEN <<LmEvalRow(j, ds)>> ELSE <<>>

\* lines 134-155: one iteration of the loop over val_dict.items()
EvalDataset(j) ==
    /\ pc[j] = "eval"
    /\ loc[j].idx <= Len(val_dict)
    /\ LET ds == val_dict[loc[j].idx]
           m == loc[j].lr_models
       IN  /\ rows' = [rows EXCEPT ![j].eval = Append(@, EvalRow(j, ds)),
                                   ![j].lm_eval = @ \o LmRows(j, ds),
                                   ![j].lr_eval = @ \o LrRows(j, ds, m)]
           /\ Log(j, <<Call("reporter_call", ds.name), Call("evaluate_preds", ds.name)>>
                     \o (IF ds.lm THEN <<Call("evaluate_preds", ds.name)>> ELSE <<>>)
                     \o [k \in 1..(2 * m) |->
                            IF k % 2 = 1 THEN Call("lr_model_call", ds.name)
                                         ELSE Call("evaluate_preds", ds.name)])
    /\ loc' = [loc EXCEPT ![j].idx = @ + 1]
    /\ UNCHANGED <<normVars, promptVars, plotVars, extractVars,
                   net, supervised, train_dict, val_dict, jobs, layer, pc, err, fs>>

\* line 157
Return(j) ==
    /\ pc[j] = "eval"
    /\ loc[j].idx > Len(val_dict)
    /\ Goto(j, "done")
    /\ UNCHANGED <<normVars, promptVars, plotVars, extractVars,
                   net, supervised, train_dict, val_dict, jobs, layer, err, calls, loc, rows, fs>>

---------------------------------------------------------------------------
(* Specifications of the layer job *)

ExtractUnused ==
    /\ ex_prompts = "unused"
    /\ ex_pc = <<>>
    /\ ex_split = <<>>
    /\ ex_arrived = <<>>
    /\ ex_buf = {}
    /\ ex_loc = <<>>
    /\ ex_files = <<>>
    /\ ex_err = <<>>
    /\ ex_events = {}

PlotUnused ==
    /\ pl_overwrite = FALSE
    /\ pl_sweeps = <<>>
    /\ pl_dirs = {}
    /\ pl_viz = {}
    /\ pl_pc = "unused"
    /\ pl_err = NoError
    /\ pl_log = <<>>

PromptsUnused ==
    /\ lp_args = <<>>
    /\ lp_data = <<>>
    /\ lp_pc = "unused"
    /\ lp_err = NoError
    /\ lp_loc = <<>>
    /\ lp_out = <<>>

NormUnused ==
    /\ x = <<>>
    /\ scale = TRUE
    /\ norm_pc = "unused"
    /\ norm_out = <<>>

InitJobs(J) ==
    /\ jobs = J
    /\ layer \in {f \in [J -> 0..MaxLayer] : \A a, b \in J : a # b => f[a] # f[b]}
    /\ pc = [j \in J |-> "start"]
    /\ err = [j \in J |-> NoError]
    /\ calls = [j \in J |-> <<>>]
    /\ loc = [j \in J |-> NoLocals]
    /\ rows = [j \in J |-> NoRows]
    /\ fs = {}
    /\ NormUnused
    /\ PromptsUnused
    /\ PlotUnused
    /\ ExtractUnused

\* one call of apply_to_layer
Init ==
    /\ net \in NetKinds
    /\ supervised \in SupervisedModes
    /\ train_dict \in TrainDicts
    /\ val_dict \in ValDicts
    /\ InitJobs({1})

\* the layers of one run, each its own call; file paths do not depend on V, K or
\* on the upstream model's predictions, which are held fixed here
InitSweep ==
    /\ net \in NetKinds
    /\ supervised \in {"none", "single"}
    /\ train_dict \in {t \in TrainDicts : \A i \in 1..Len(t) : t[i].v = 1 /\ t[i].k = 2}
    /\ val_dict \in {v \in ValDicts : Len(v) <= 1 /\ \A i \in 1..Len(v) : ~v[i].lm /\ v[i].d = 1}
    /\ InitJobs(1..NJobs)

Next ==
    \/ \E j \in jobs : CheckWidth(j)
    \/ \E j \in jobs : MkLrDir(j)
    \/ \E j \in jobs : MkReporterDir(j)
    \/ \E j \in jobs : SaveCfg(j)
    \/ \E j \in jobs : Dispatch(j)
    \/ \E j \in jobs : CcsFit(j)
    \/ \E j \in jobs : CcsSeparability(j)
    \/ \E j \in jobs : CcsPlatt(j)
    \/ \E j \in jobs : EigenUpdate(j)
    \/ \E j \in jobs : EigenFit(j)
    \/ \E j \in jobs : EigenPlatt(j)
    \/ \E j \in jobs : SaveReporter(j)
    \/ \E j \in jobs : TrainSupervised(j)
    \/ \E j \in jobs : EvalDataset(j)
    \/ \E j \in jobs : Return(j)

Spec == Init /\ [][Next]_vars

SpecSweep == InitSweep /\ [][Next]_vars

---------------------------------------------------------------------------
(* Vocabulary of the claims *)

Ops(j) == {calls[j][i].op : i \in 1..Len(calls[j])}

Positions(j, O) == {i \in 1..Len(calls[j]) : calls[j][i].op \in O}

FsBy(j) == {f \in fs : f.job = j}

Written == {f \in fs : f.op = "write"}

ConfigErrors == {WidthError, CcsMultiError, UnknownTypeError}

TrainWidths == {train_dict[i].d : i \in 1..Len(train_dict)}

LoadedWidths == TrainWidths \cup {val_dict[i].d : i \in 1..Len(val_dict)}

TableRows(j) ==
    {rows[j].eval[i] : i \in 1..Len(rows[j].eval)}
        \cup {rows[j].lm_eval[i] : i \in 1..Len(rows[j].lm_eval)}
        \cup {rows[j].lr_eval[i] : i \in 1..Len(rows[j].lr_eval)}

---------------------------------------------------------------------------
(* C1 *)

\* C1, as claimed: a job that ended in a configuration error (width mismatch, CCS with
\* more than one dataset, unknown reporter config type) has created no directory and
\* written no file under out_dir.
C1_ConfigErrorPersistsNothing ==
    \A j \in jobs : err[j] \in ConfigErrors => FsBy(j) = {}

---------------------------------------------------------------------------
(* C2 *)

\* C2, as claimed: no file path is written by two different layer jobs.
C2_NoPathWrittenByTwoJobs ==
    \A f, g \in Written : f.path = g.path => f.job = g.job

\* C2, amended: a job writes only reporters/cfg.yaml, its own layer's reporter
\* checkpoint and its own layer's baseline file; the only path two jobs both write is
\* reporters/cfg.yaml, and they write the same content (the run's reporter config) to it.
C2_OnlyCfgShared ==
    /\ \A f \in Written :
          f.path \in {CfgPath, ReporterPath(layer[f.job]), LrPath(layer[f.job])}
    /\ \A f, g \in Written :
          (f.path = g.path /\ f.job # g.job) => (f.path = CfgPath /\ f.content = g.content)

\* two jobs have each written the shared cfg and their own checkpoint
C2_Witness ==
    \E a, b \in jobs :
        /\ a # b
        /\ \A j \in {a, b} :
              /\ Write(j, CfgPath, net) \in fs
              /\ \E f \in Written : f.job = j /\ f.path = ReporterPath(layer[j])

---------------------------------------------------------------------------
(* C3 *)

\* C3: with the CCS config and more than one training dataset, the job never
\* constructs or fits a reporter (it makes no reporter call at all), never gets past
\* the dispatch, and when it has failed the error is the width error or the CCS
\* single-task assertion.
C3_CcsMultiDatasetFails ==
    \A j \in jobs :
        (net = "ccs" /\ Len(train_dict) > 1) =>
            /\ calls[j] = <<>>
            /\ pc[j] \in {"start", "mk_lr_dir", "mk_reporter_dir", "save_cfg", "dispatch", "failed"}
            /\ pc[j] = "failed" => err[j] \in {WidthError, CcsMultiError}

\* the assertion of line 72 has fired
C3_Witness ==
    \E j \in jobs :
        net = "ccs" /\ Len(train_dict) > 1 /\ pc[j] = "failed" /\ err[j] = CcsMultiError

---------------------------------------------------------------------------
(* C4 *)

\* C4, as claimed: when the loaded datasets do not all share D, no reporter is created
\* or trained and the error raised names the offending dataset(s).
C4_WidthErrorNamesDatasets ==
    \A j \in jobs :
        Cardinality(LoadedWidths) > 1 =>
            /\ calls[j] = <<>>
            /\ pc[j] = "failed" => err[j].names # {}

\* C4, amended: when the training datasets do not all share D, the job fails at the
\* width check: it makes no reporter call, creates and writes nothing, and the error is
\* the ValueError with the fixed message, which names no dataset.
C4_TrainWidthMismatchFailsFast ==
    \A j \in jobs :
        Cardinality(TrainWidths) > 1 =>
            /\ calls[j] = <<>>
            /\ FsBy(j) = {}
            /\ pc[j] \in {"start", "failed"}
            /\ pc[j] = "failed" => (err[j] = WidthError /\ err[j].names = {})

C4_Witness ==
    \E j \in jobs : Cardinality(TrainWidths) > 1 /\ pc[j] = "failed" /\ err[j] = WidthError

---------------------------------------------------------------------------
(* C5 *)

TrainingOps == {"fit", "update", "fit_streaming"}

CalibrationOps == {"platt_scale"}

EvaluationOps == {"reporter_call", "evaluate_preds", "lr_model_call"}

AllBefore(j, A, B) == \A a \in Positions(j, A), b \in Positions(j, B) : a < b

Count(j, o) == Cardinality(Positions(j, {o}))

\* the reporter has been trained in full: CCS fitted once, or Eigen updated once per
\* training dataset and then solved once
TrainingComplete(j) ==
    /\ net = "ccs" => Count(j, "fit") = 1
    /\ net = "eigen" => (Count(j, "update") = Len(train_dict) /\ Count(j, "fit_streaming") = 1)

\* C5: in every job the training calls (fit, or the updates and then fit_streaming) all
\* come before platt_scale, platt_scale before save, save before every evaluation call,
\* and nothing trains or calibrates the reporter after save; a calibration happens only
\* on a fully trained reporter, a save only after the one calibration, an evaluation
\* only after the one save, and a job that returns has saved.
C5_TrainCalibrateSaveEvaluate ==
    \A j \in jobs :
        /\ AllBefore(j, {"update"}, {"fit_streaming"})
        /\ AllBefore(j, TrainingOps, CalibrationOps)
        /\ AllBefore(j, CalibrationOps, {"save"})
        /\ AllBefore(j, TrainingOps \cup CalibrationOps, {"save"})
        /\ AllBefore(j, {"save"}, EvaluationOps)
        /\ Positions(j, CalibrationOps) # {} => TrainingComplete(j)
        /\ Positions(j, {"save"}) # {} => Count(j, "platt_scale") = 1
        /\ Positions(j, EvaluationOps) # {} => Count(j, "save") = 1
        /\ pc[j] = "done" => (Count(j, "save") = 1 /\ err[j] = NoError)

\* an Eigen job over two training datasets has returned after evaluating
C5_Witness ==
    \E j \in jobs :
        /\ pc[j] = "done"
        /\ net = "eigen"
        /\ Len(train_dict) = 2
        /\ Positions(j, {"evaluate_preds"}) # {}

---------------------------------------------------------------------------
(* C6 *)

CommonFields == {"dataset", "layer", "accuracy", "auroc"}

\* C6, as claimed: every row of every table carries dataset, layer, accuracy, auroc and
\* train_loss; eval rows also pseudo_auroc, lr_eval rows also inlp_iter.
C6_EveryRowCarriesTrainLoss ==
    \A j \in jobs :
        /\ \A r \in TableRows(j) : (CommonFields \cup {"train_loss"}) \subseteq DOMAIN r
        /\ \A i \in 1..Len(rows[j].eval) : "pseudo_auroc" \in DOMAIN rows[j].eval[i]
        /\ \A i \in 1..Len(rows[j].lr_eval) : "inlp_iter" \in DOMAIN rows[j].lr_eval[i]

\* C6, amended: every row carries dataset, layer and the evaluator's accuracy and auroc;
\* eval rows carry exactly these plus pseudo_auroc and train_loss, lr_eval rows exactly
\* these plus inlp_iter, lm_eval rows exactly these: train_loss is in eval rows only.
C6_RowFields ==
    \A j \in jobs :
        /\ \A i \in 1..Len(rows[j].eval) :
              DOMAIN rows[j].eval[i] = CommonFields \cup {"pseudo_auroc", "train_loss"}
        /\ \A i \in 1..Len(rows[j].lm_eval) : DOMAIN rows[j].lm_eval[i] = CommonFields
        /\ \A i \in 1..Len(rows[j].lr_eval) :
              DOMAIN rows[j].lr_eval[i] = CommonFields \cup {"inlp_iter"}

\* a job has returned rows in all three tables
C6_Witness ==
    \E j \in jobs :
        /\ pc[j] = "done"
        /\ rows[j].eval # <<>>
        /\ rows[j].lm_eval # <<>>
        /\ rows[j].lr_eval # <<>>

---------------------------------------------------------------------------
(* C7 *)

DatasetsOf(table) == [i \in 1..Len(table) |-> table[i].dataset]

NamesOf(dict) == [i \in 1..Len(dict) |-> dict[i].name]

HasLmPreds(ds) == ds.lm

\* C7: a job that has returned holds one eval row per validation dataset, in order; one
\* lm_eval row for each validation dataset that comes with upstream-model predictions
\* and none for the others; for each validation dataset and each i in 0..m-1 exactly one
\* lr_eval row with inlp_iter = i, and m rows per dataset in all, m the number of models
\* the baseline returned; every row's layer is the job's layer.  With supervised = "none"
\* the job never calls train_supervised, never writes its baseline file and has
\* no lr_eval row.  Otherwise a returned job has trained the baseline once and written
\* its layer's baseline file.
C7_RowCounts ==
    \A j \in jobs :
        /\ supervised = "none" =>
              /\ "train_supervised" \notin Ops(j)
              /\ \A f \in Written : f.job = j => f.path # LrPath(layer[j])
              /\ rows[j].lr_eval = <<>>
        /\ \A r \in TableRows(j) : r.layer = layer[j]
        /\ pc[j] = "done" =>
              LET m == loc[j].lr_models
                  lr == rows[j].lr_eval
              IN  /\ DatasetsOf(rows[j].eval) = NamesOf(val_dict)
                  /\ DatasetsOf(rows[j].lm_eval) = NamesOf(SelectSeq(val_dict, HasLmPreds))
                  /\ Len(lr) = m * Len(val_dict)
                  /\ \A d \in 1..Len(val_dict), i \in 0..(m - 1) :
                        Cardinality({k \in 1..Len(lr) :
                            lr[k].dataset = val_dict[d].name /\ lr[k].inlp_iter = i}) = 1
                  /\ supervised # "none" =>
                        /\ Count(j, "train_supervised") = 1
                        /\ Write(j, LrPath(layer[j]), "lr_models") \in fs

\* two validation datasets, one with and one without upstream predictions, and a
\* baseline of two models
C7_Witness ==
    \E j \in jobs :
        /\ pc[j] = "done"
        /\ Len(val_dict) = 2
        /\ val_dict[1].lm # val_dict[2].lm
        /\ loc[j].lr_models = 2
        /\ Len(rows[j].lr_eval) = 4

---------------------------------------------------------------------------
(* C8 *)

UpdateArgs(j) ==
    LET ups == SelectSeq(calls[j], LAMBDA c : c.op = "update")
    IN  [i \in 1..Len(ups) |-> ups[i].arg]

\* C8: with the Eigen config and one or more training datasets of one width D, whatever
\* their V and K: the job never fails; the reporter is built first, with num_classes
\* None; the updates made so far are the first datasets of train_dict, each with its own
\* tensor, in order; fit_streaming is called at most once and only when every dataset
\* has been folded in; from the calibration on it has been called exactly once.
C8_EigenUpdatesThenFit ==
    \A j \in jobs :
        (net = "eigen" /\ Len(train_dict) >= 1 /\ Cardinality(TrainWidths) = 1) =>
            /\ pc[j] # "failed"
            /\ err[j] = NoError
            /\ calls[j] # <<>> =>
                  /\ calls[j][1].op = "EigenReporter"
                  /\ calls[j][1].arg.num_classes = "None"
                  /\ Count(j, "EigenReporter") = 1
            /\ Len(UpdateArgs(j)) <= Len(train_dict)
            /\ UpdateArgs(j) = SubSeq(train_dict, 1, Len(UpdateArgs(j)))
            /\ Count(j, "fit_streaming") <= 1
            /\ Count(j, "fit_streaming") = 1 => UpdateArgs(j) = train_dict
            /\ AllBefore(j, {"update"}, {"fit_streaming"})
            /\ pc[j] \in {"eigen_platt", "save", "supervised", "eval", "done"} =>
                  Count(j, "fit_streaming") = 1

\* an Eigen job over two datasets that differ in V and in K has returned
C8_Witness ==
    \E j \in jobs :
        /\ net = "eigen"
        /\ Len(train_dict) = 2
        /\ train_dict[1].v # train_dict[2].v
        /\ train_dict[1].k # train_dict[2].k
        /\ pc[j] = "done"

---------------------------------------------------------------------------
(* BurnsNorm.forward on a tensor of shape (N, V, D), in exact arithmetic.          *)
(* A finite number is kept as a fraction num / den divided by a scale; the scale   *)
(* is a mean of square roots and is kept as the sequence of its radicands          *)
(* (<<>> is the scale 1).  NaN is what IEEE division gives for 0 / 0.              *)

NormVariants == {1, 2}    \* indices along V
NormFeatures == {1, 2}    \* indices along D
NormValues == {0, 1}      \* entries of the input tensor

Tensors(n) == [1..n -> [NormVariants -> [NormFeatures -> NormValues]]]

RECURSIVE SumTo(_, _)
SumTo(f, n) == IF n = 0 THEN 0 ELSE f[n] + SumTo(f, n - 1)

NaN == [kind |-> "nan", num |-> 0, den |-> 1, by |-> <<>>]

Num(a, b, s) == [kind |-> "num", num |-> a, den |-> b, by |-> s]

\* variant: the mean of the first variant used for every variant
ColumnSumFirstVariant(t, v, d) == SumTo([n \in 1..Len(t) |-> t[n][1][d]], Len(t))
\* line 10: x.mean(dim=0), as the fraction ColumnSum / N
ColumnSum(t, v, d) == SumTo([n \in 1..Len(t) |-> t[n][v][d]], Len(t))

\* line 10: x_normalized = x - x.mean(dim=0), as the numerator over the denominator N
Centered(t, n, v, d) == Len(t) * t[n][v][d] - ColumnSum(t, v, d)

\* lines 12-14: std = ||x_normalized||_2 over N, divided by sqrt(N); kept as the
\* numerator of std^2 = (sum of Centered^2) / N^3
StdSquared(t, v, d) ==
    SumTo([n \in 1..Len(t) |-> Centered(t, n, v, d) * Centered(t, n, v, d)], Len(t))

\* lines 18-29: avg_norm = std.mean over every axis but V, one scale per v; kept as
\* the radicands whose roots are averaged
AvgNorm(t, v) == [d \in NormFeatures |-> StdSquared(t, v, d)]

\* a mean of square roots is zero exactly when every radicand is
IsZeroScale(s) == \A d \in DOMAIN s : s[d] = 0

\* line 31: x_normalized / avg_norm, elementwise with avg_norm broadcast over N and D
Divide(c, n, s) ==
    IF IsZeroScale(s)
      THEN IF c = 0 THEN NaN ELSE [kind |-> "inf", num |-> c, den |-> n, by |-> s]
      ELSE Num(c, n, s)

\* lines 9-31
Forward(t, sc) ==
    [n \in 1..Len(t) |-> [v \in NormVariants |-> [d \in NormFeatures |->
        IF sc THEN Divide(Centered(t, n, v, d), Len(t), AvgNorm(t, v))
              ELSE Num(Centered(t, n, v, d), Len(t), <<>>)]]]

\* the call: forward has no in-place operation and no raise
ForwardCall ==
    /\ norm_pc = "idle"
    /\ norm_out' = Forward(x, scale)
    /\ norm_pc' = "returned"
    /\ UNCHANGED <<x, scale>>
    /\ UNCHANGED <<trainVars, promptVars, plotVars, extractVars>>

TrainUnused ==
    /\ net = "eigen"
    /\ supervised = "none"
    /\ train_dict = <<>>
    /\ val_dict = <<>>
    /\ jobs = {}
    /\ layer = <<>>
    /\ pc = <<>>
    /\ err = <<>>
    /\ calls = <<>>
    /\ loc = <<>>
    /\ rows = <<>>
    /\ fs = {}

InitNorm ==
    /\ \E n \in 1..MaxN : x \in Tensors(n)
    /\ scale \in BOOLEAN
    /\ norm_pc = "idle"
    /\ norm_out = <<>>
    /\ TrainUnused
    /\ PromptsUnused
    /\ PlotUnused
    /\ ExtractUnused

NextNorm == ForwardCall

SpecNorm == InitNorm /\ [][NextNorm]_vars

---------------------------------------------------------------------------
(* C9 *)

\* C9, as claimed: forward does not return a tensor when the pooling axis has fewer
\* than two entries.
C9_FailsBelowTwo == norm_pc = "returned" => Len(x) >= 2

---------------------------------------------------------------------------
(* C10 *)

RECURSIVE TotalOverN(_, _, _)
TotalOverN(n, v, d) == IF n = 0 THEN 0 ELSE x[n][v][d] + TotalOverN(n - 1, v, d)

\* N times the centered value of x at (n, v, d)
Deviation(n, v, d) == Len(x) * x[n][v][d] - TotalOverN(Len(x), v, d)

VariantVaries(v) == \E n \in 1..Len(x), d \in NormFeatures : Deviation(n, v, d) # 0

RECURSIVE OutputTotal(_, _, _)
OutputTotal(n, v, d) ==
    IF n = 0 THEN 0 ELSE norm_out[n][v][d].num + OutputTotal(n - 1, v, d)

\* the outputs over N at (v, d) are finite numbers over one denominator and one scale,
\* and their numerators add up to zero
SumsToZeroOverN(v, d) ==
    /\ \A n \in 1..Len(x) :
          /\ norm_out[n][v][d].kind = "num"
          /\ norm_out[n][v][d].den = Len(x)
          /\ norm_out[n][v][d].by = norm_out[1][v][d].by
    /\ OutputTotal(Len(x), v, d) = 0

OutputIsCentered ==
    \A n \in 1..Len(x), v \in NormVariants, d \in NormFeatures :
        norm_out[n][v][d] = Num(Deviation(n, v, d), Len(x), <<>>)

\* C10, as claimed (without its last part, that the input is unchanged): for N >= 2 and
\* centered values that are not all zero, with either flag, the output sums to zero over
\* N at every position, and with the flag off it is the input minus its mean over N.
C10_SumsToZeroEverywhere ==
    (norm_pc = "returned" /\ Len(x) >= 2 /\ \E v \in NormVariants : VariantVaries(v)) =>
        /\ \A v \in NormVariants, d \in NormFeatures : SumsToZeroOverN(v, d)
        /\ ~scale => OutputIsCentered

C10_Returned ==
    (norm_pc = "returned" /\ Len(x) >= 2) =>
        /\ Len(norm_out) = Len(x)
        /\ ~scale =>
              /\ OutputIsCentered
              /\ \A v \in NormVariants, d \in NormFeatures : SumsToZeroOverN(v, d)
        /\ scale =>
              \A v \in NormVariants :
                  IF VariantVaries(v)
                    THEN \A d \in NormFeatures : SumsToZeroOverN(v, d)
                    ELSE \A n \in 1..Len(x), d \in NormFeatures : norm_out[n][v][d] = NaN

\* C10, amended: for N >= 2, with the flag off the output is the input minus its mean
\* over N and sums to zero over N at every position; with the flag on the output sums
\* to zero over N at every position of a variant index whose centered values are not
\* all zero, and is NaN at every position of a variant index whose centered values are
\* all zero; the input tensor is never changed.
C10_SumsToZeroPerVariant == [](C10_Returned) /\ [][x' = x]_vars

\* flag on, N >= 2, and every variant index has a nonzero centered value
C10_Witness ==
    /\ norm_pc = "returned"
    /\ scale
    /\ Len(x) >= 2
    /\ \A v \in NormVariants : VariantVaries(v)

---------------------------------------------------------------------------
(* load_prompts (src/elk/extraction/prompt_loading.py), a generator: one action   *)
(* per statement group, the yield loop one iteration at a time                     *)

\* what infer_num_classes gives for a dataset's label column, and how many templates
\* its prompter has
PromptKinds ==
    {[classes |-> 2, templates |-> 1], [classes |-> 2, templates |-> 2],
     [classes |-> 3, templates |-> 1]}

\* a dataset: the names its info carries, its kind, the number of examples its sampler
\* yields, and which of them (0: none) _convert_to_prompts rejects
PromptDatasets ==
    {[i \in 1..Len(s) |->
        [builder_name |-> <<"builder", i>>, config_name |-> <<"config", i>>,
         classes |-> s[i].kind.classes, templates |-> s[i].kind.templates,
         examples |-> s[i].examples, bad |-> s[i].bad]] :
      s \in SeqsUpTo({r \in [kind : PromptKinds, examples : 0..MaxExamples, bad : 0..MaxExamples] :
                        r.bad <= r.examples}, MaxPromptDs)}

PromptArgs == [num_classes : {0, 2}, num_variants : {-1, 0, 1}, num_shots : {0, 1}]

\* line 107
ShotsError == [kind |-> "AssertionError", msg |-> "num_shots == 0", names |-> {}]

\* line 143: unpacking an empty class_counts
NoDatasetError == [kind |-> "ValueError", msg |-> "not enough values to unpack", names |-> {}]

\* lines 145-147
ClassCountError ==
    [kind |-> "ValueError", msg |-> "# classes should be the same for all datasets",
     names |-> {}]

\* line 155
VariantsError == [kind |-> "AssertionError", msg |-> "num_variants > 0", names |-> {}]

\* lines 252-260: the sanity checks of _convert_to_prompts
ConvertError == [kind |-> "ValueError", msg |-> "duplicate prompt or label index", names |-> {}]

LpRaise(e) ==
    /\ lp_pc' = "failed"
    /\ lp_err' = e

Min(a, b) == IF a <= b THEN a ELSE b

RECURSIVE MinTemplates(_, _)
\* line 149: min(len(prompter.templates) for prompter in prompters), over the first n
MinTemplates(d, n) ==
    IF n = 1 THEN d[1].templates ELSE Min(d[n].templates, MinTemplates(d, n - 1))

\* line 136: num_classes or infer_num_classes(...), num_classes the local that the
\* loop itself reassigns
ClassesOrInferred(current, ds) == IF current # 0 THEN current ELSE ds.classes

\* variant: every draw made from the same iterator
NextTurnStays(t, m) == t
\* lines 163-165: cycle(zip(...)), the position after t among m
NextTurn(t, m) == (t % m) + 1

\* variant: the names of the first dataset put on every example
TaggedFirst(ex, t) ==
    [builder_name |-> lp_data[1].builder_name, config_name |-> lp_data[1].config_name] @@ ex
\* lines 183-184
Tagged(ex, t) ==
    [builder_name |-> lp_data[t].builder_name, config_name |-> lp_data[t].config_name] @@ ex

\* lines 101-107
LpStart ==
    /\ lp_pc = "start"
    /\ IF lp_args.num_shots # 0
         THEN LpRaise(ShotsError)
         ELSE lp_pc' = "load" /\ UNCHANGED lp_err
    /\ UNCHANGED <<trainVars, normVars, plotVars, extractVars, lp_args, lp_data, lp_loc, lp_out>>

\* lines 111-140: one iteration of the loading loop
LpLoadDataset ==
    /\ lp_pc = "load"
    /\ lp_loc.i <= Len(lp_data)
    /\ LET nc == ClassesOrInferred(lp_loc.num_classes, lp_data[lp_loc.i])
       IN  lp_loc' = [lp_loc EXCEPT !.num_classes = nc,
                                    !.class_counts = Append(@, nc),
                                    !.i = @ + 1]
    /\ UNCHANGED <<trainVars, normVars, plotVars, extractVars, lp_args, lp_data, lp_pc, lp_err, lp_out>>

\* lines 143-147, once every dataset is loaded
LpCheckClasses ==
    /\ lp_pc = "load"
    /\ lp_loc.i > Len(lp_data)
    /\ IF lp_loc.class_counts = <<>>
         THEN LpRaise(NoDatasetError) /\ UNCHANGED lp_loc
         ELSE IF \E k \in 2..Len(lp_loc.class_counts) :
                    lp_loc.class_counts[k] # lp_loc.class_counts[1]
                THEN /\ LpRaise(ClassCountError)
                     /\ lp_loc' = [lp_loc EXCEPT !.num_classes = lp_loc.class_counts[1]]
                ELSE /\ lp_pc' = "variants"
                     /\ lp_loc' = [lp_loc EXCEPT !.num_classes = lp_loc.class_counts[1]]
                     /\ UNCHANGED lp_err
    /\ UNCHANGED <<trainVars, normVars, plotVars, extractVars, lp_args, lp_data, lp_out>>

\* lines 149-162: num_variants, its assertion, and the samplers' iterators
LpChooseVariants ==
    /\ lp_pc = "variants"
    /\ LET mt == MinTemplates(lp_data, Len(lp_data))
           nv == IF lp_loc.num_variants = -1 THEN mt ELSE Min(lp_loc.num_variants, mt)
       IN  /\ lp_loc' = [lp_loc EXCEPT !.num_variants = nv, !.turn = 1]
           /\ IF nv > 0
                THEN lp_pc' = "cycle" /\ UNCHANGED lp_err
                ELSE LpRaise(VariantsError)
    /\ UNCHANGED <<trainVars, normVars, plotVars, extractVars, lp_args, lp_data, lp_out>>

\* lines 163-186: one iteration of the cycle: return, raise, or yield one example
LpNext ==
    /\ lp_pc = "cycle"
    /\ LET t == lp_loc.turn
           k == lp_loc.pos[t] + 1
       IN  IF lp_loc.pos[t] = lp_data[t].examples
             THEN lp_pc' = "done" /\ UNCHANGED <<lp_err, lp_loc, lp_out>>
             ELSE IF lp_data[t].bad = k
                    THEN /\ LpRaise(ConvertError)
                         /\ lp_loc' = [lp_loc EXCEPT !.pos[t] = k]
                         /\ UNCHANGED lp_out
                    ELSE /\ lp_out' = Append(lp_out,
                                Tagged([ds |-> t, k |-> k,
                                        num_classes |-> lp_loc.num_classes,
                                        num_variants |-> lp_loc.num_variants], t))
                         /\ lp_loc' = [lp_loc EXCEPT !.pos[t] = k,
                                                     !.turn = NextTurn(t, Len(lp_data))]
                         /\ UNCHANGED <<lp_pc, lp_err>>
    /\ UNCHANGED <<trainVars, normVars, plotVars, extractVars, lp_args, lp_data>>

InitPrompts ==
    /\ lp_args \in PromptArgs
    /\ lp_data \in PromptDatasets
    /\ lp_pc = "start"
    /\ lp_err = NoError
    /\ lp_loc = [num_classes |-> lp_args.num_classes, class_counts |-> <<>>,
                 num_variants |-> lp_args.num_variants, i |-> 1, turn |-> 1,
                 pos |-> [d \in 1..Len(lp_data) |-> 0]]
    /\ lp_out = <<>>
    /\ TrainUnused
    /\ NormUnused
    /\ PlotUnused
    /\ ExtractUnused

NextPrompts ==
    \/ LpStart
    \/ LpLoadDataset
    \/ LpCheckClasses
    \/ LpChooseVariants
    \/ LpNext

SpecPrompts == InitPrompts /\ [][NextPrompts]_vars

---------------------------------------------------------------------------
(* C11 *)

DataClasses == {lp_data[i].classes : i \in 1..Len(lp_data)}

\* C11, as claimed: called with num_classes = 0 on datasets whose label columns do not
\* all have the same number of classes, load_prompts does not get past its class-count
\* check, and no example is ever yielded with a class count other than its own
\* dataset's.
C11_MismatchedClassCountsRaise ==
    (lp_args.num_classes = 0 /\ Cardinality(DataClasses) > 1) =>
        /\ lp_pc \notin {"variants", "cycle", "done"}
        /\ lp_pc = "failed" => lp_err \in {ShotsError, ClassCountError}
        /\ \A i \in 1..Len(lp_out) : lp_out[i].num_classes = lp_data[lp_out[i].ds].classes

---------------------------------------------------------------------------
(* C13 *)

TurnOf(i) == ((i - 1) % Len(lp_data)) + 1

YieldedFrom(d) == Cardinality({i \in 1..Len(lp_out) : TurnOf(i) = d})

C13_RoundRobinState ==
    /\ \A i \in 1..Len(lp_out) :
          /\ lp_out[i].ds = TurnOf(i)
          /\ lp_out[i].k = ((i - 1) \div Len(lp_data)) + 1
          /\ lp_out[i].builder_name = lp_data[TurnOf(i)].builder_name
          /\ lp_out[i].config_name = lp_data[TurnOf(i)].config_name
    /\ \A a, b \in 1..Len(lp_data) : YieldedFrom(a) - YieldedFrom(b) \in {-1, 0, 1}
    /\ \A d \in 1..Len(lp_data) : YieldedFrom(d) <= lp_data[d].examples
    /\ lp_pc = "done" =>
          YieldedFrom(TurnOf(Len(lp_out) + 1)) = lp_data[TurnOf(Len(lp_out) + 1)].examples

\* C13: the i-th example yielded is the next example of dataset ((i-1) mod m) + 1 and
\* carries that dataset's builder and config name; the numbers yielded from any two
\* datasets differ by at most one; the generator returns only when the dataset whose
\* turn it is has no example left, and once it has returned it yields nothing more.
C13_RoundRobin ==
    /\ [](C13_RoundRobinState)
    /\ [][lp_pc = "done" => (lp_pc' = "done" /\ lp_out' = lp_out)]_vars

\* two datasets, the cycle gone round more than once, and the generator has returned
C13_Witness ==
    /\ lp_pc = "done"
    /\ Len(lp_data) = 2
    /\ Len(lp_out) >= 3

---------------------------------------------------------------------------
(* Plot.execute (src/elk/plotting/command.py) *)

SweepNames == {"a", "b"}

\* line 26: max() over an empty sweeps_root_dir.iterdir()
NoSweepError == [kind |-> "ValueError", msg |-> "max() arg is an empty sequence", names |-> {}]

\* line 48: shutil.rmtree of a path that does not exist
NoVizError == [kind |-> "FileNotFoundError", msg |-> "viz", names |-> {}]

PlotEvent(o, a) == [op |-> o, arg |-> a]

\* line 48: shutil.rmtree(self.sweeps[0] / "viz") succeeds only on an existing directory
RmtreeSucceeds(sweep) == sweep \in pl_viz

\* line 47: if self.overwrite
Removes == pl_overwrite

\* lines 23-29: self.sweeps left empty becomes the most recently created sweep
PlotResolve ==
    /\ pl_pc = "start"
    /\ IF pl_sweeps = <<>>
         THEN IF pl_dirs = {}
                THEN /\ pl_pc' = "failed"
                     /\ pl_err' = NoSweepError
                     /\ UNCHANGED pl_sweeps
                ELSE /\ \E latest \in pl_dirs : pl_sweeps' = <<latest>>
                     /\ pl_pc' = "check"
                     /\ UNCHANGED pl_err
         ELSE /\ pl_pc' = "check"
              /\ UNCHANGED <<pl_sweeps, pl_err>>
    /\ UNCHANGED <<trainVars, normVars, promptVars, extractVars, pl_overwrite, pl_dirs, pl_viz, pl_log>>

\* lines 31-46: the three refusals, else on to the plotting branch
PlotCheck ==
    /\ pl_pc = "check"
    /\ IF pl_sweeps[1] \notin pl_dirs
         THEN /\ pl_log' = Append(pl_log, PlotEvent("pretty_error", "no sweep"))
              /\ pl_pc' = "done"
         ELSE IF Len(pl_sweeps) > 1
                THEN /\ pl_log' = Append(pl_log, PlotEvent("pretty_error", "one sweep only"))
                     /\ pl_pc' = "done"
                ELSE IF pl_sweeps[1] \in pl_viz /\ ~pl_overwrite
                       THEN /\ pl_log' = Append(pl_log, PlotEvent("pretty_error", "viz exists"))
                            /\ pl_pc' = "done"
                       ELSE /\ pl_pc' = "remove"
                            /\ UNCHANGED pl_log
    /\ UNCHANGED <<trainVars, normVars, promptVars, extractVars, pl_overwrite, pl_sweeps, pl_dirs, pl_viz,
                   pl_err>>

\* lines 47-48
PlotRemove ==
    /\ pl_pc = "remove"
    /\ IF Removes
         THEN IF RmtreeSucceeds(pl_sweeps[1])
                THEN /\ pl_viz' = pl_viz \ {pl_sweeps[1]}
                     /\ pl_log' = Append(pl_log, PlotEvent("rmtree", pl_sweeps[1]))
                     /\ pl_pc' = "visualize"
                     /\ UNCHANGED pl_err
                ELSE /\ pl_pc' = "failed"
                     /\ pl_err' = NoVizError
                     /\ UNCHANGED <<pl_viz, pl_log>>
         ELSE /\ pl_pc' = "visualize"
              /\ UNCHANGED <<pl_viz, pl_log, pl_err>>
    /\ UNCHANGED <<trainVars, normVars, promptVars, extractVars, pl_overwrite, pl_sweeps, pl_dirs>>

\* line 49: visualize_sweep(self.sweeps[0]), which writes the sweep's viz directory
PlotVisualize ==
    /\ pl_pc = "visualize"
    /\ pl_log' = Append(pl_log, PlotEvent("visualize_sweep", pl_sweeps[1]))
    /\ pl_viz' = pl_viz \cup {pl_sweeps[1]}
    /\ pl_pc' = "done"
    /\ UNCHANGED <<trainVars, normVars, promptVars, extractVars, pl_overwrite, pl_sweeps, pl_dirs, pl_err>>

InitPlot ==
    /\ pl_overwrite \in BOOLEAN
    /\ pl_sweeps \in SeqsUpTo(SweepNames, MaxSweeps)
    /\ pl_dirs \in SUBSET SweepNames
    /\ pl_viz \in SUBSET pl_dirs
    /\ pl_pc = "start"
    /\ pl_err = NoError
    /\ pl_log = <<>>
    /\ TrainUnused
    /\ NormUnused
    /\ PromptsUnused
    /\ ExtractUnused

NextPlot ==
    \/ PlotResolve
    \/ PlotCheck
    \/ PlotRemove
    \/ PlotVisualize

SpecPlot == InitPlot /\ [][NextPlot]_vars

---------------------------------------------------------------------------
(* C12 *)

PlotEnded == pl_pc \in {"done", "failed"}

\* C12, as claimed: an execution with overwrite set and exactly one sweep, which
\* exists, ends with that sweep visualized; and a viz directory is removed only when
\* overwrite is set.
C12_OverwriteVisualizes ==
    /\ (PlotEnded /\ pl_overwrite /\ Len(pl_sweeps) = 1 /\ pl_sweeps[1] \in pl_dirs) =>
          /\ pl_pc = "done"
          /\ pl_log # <<>>
          /\ pl_log[Len(pl_log)] = PlotEvent("visualize_sweep", pl_sweeps[1])
    /\ \A i \in 1..Len(pl_log) : pl_log[i].op = "rmtree" => pl_overwrite

---------------------------------------------------------------------------
(* run / extract (src/elk/extraction/extraction_main.py) with torch.distributed
   initialised: NRanks processes run the same code on one save_dir *)

Ranks == 0..(NRanks - 1)
Splits == {"train", "validation"}
PromptStrategies == {"all", "randomize", "first"}

\* line 61
HiddensFile(split) == split \o "_hiddens.pt"
\* lines 111, 114
ArgsFile == "args.json"
ModelConfigFile == "model_config.json"
ExtractFiles == {HiddensFile(sp) : sp \in Splits} \cup {ArgsFile, ModelConfigFile}

Absent == [state |-> "absent", data |-> <<>>]
Stale == [state |-> "stale", data |-> <<>>]
Truncated == [state |-> "empty", data |-> <<>>]
\* torch.save / json.dump
Saved(data) == [state |-> "saved", data |-> data]

\* line 46
StrategyError == [kind |-> "ValueError", msg |-> "Unknown prompt strategy", names |-> {}]

\* lines 48-58, 62-66: what a rank's own batches concatenate to
LocalTensor(r, split, what) == <<what, split, r>>

\* the collectives of one run, in program order: lines 105, 63, 67, 107, 63, 67
Collectives == 1..6

\* dist.barrier / dist.all_gather_into_tensor: a rank's k-th collective completes
\* once every rank of the group has entered its k-th collective
CollectiveReady(k) == \A q \in Ranks : ex_arrived[q] >= k

\* maybe_all_gather: the ranks' tensors of the k-th collective, in rank order
Gathered(k) ==
    [i \in 1..NRanks |->
        IF \E t \in ex_buf : t[1] = k /\ t[2] = i - 1
          THEN (CHOOSE t \in ex_buf : t[1] = k /\ t[2] = i - 1)[3]
          ELSE <<"uninitialized">>]

\* variant: every rank saves
IsWriterAny(r) == TRUE
\* lines 69, 110 under dist.is_initialized(): dist.get_rank() == 0
IsWriter(r) == r = 0

ExEvent(r, target, op) == <<r, target, op>>

ExGoto(r, label) == ex_pc' = [ex_pc EXCEPT ![r] = label]

\* lines 105, 107: maybe_barrier() entered
ExBarrierEnter(r) ==
    /\ ex_pc[r] \in {"barrier1", "barrier2"}
    /\ ex_arrived' = [ex_arrived EXCEPT ![r] = @ + 1]
    /\ ExGoto(r, IF ex_pc[r] = "barrier1" THEN "in_barrier1" ELSE "in_barrier2")
    /\ UNCHANGED <<trainVars, normVars, promptVars, plotVars, ex_prompts, ex_split, ex_buf,
                   ex_loc, ex_files, ex_err, ex_events>>

\* lines 105-106, 107-108: the barrier left, extract(args, split) called
ExBarrierLeave(r) ==
    /\ ex_pc[r] \in {"in_barrier1", "in_barrier2"}
    /\ CollectiveReady(ex_arrived[r])
    /\ LET split == IF ex_pc[r] = "in_barrier1" THEN "train" ELSE "validation"
       IN  /\ ex_split' = [ex_split EXCEPT ![r] = split]
           /\ ex_events' = ex_events \cup {ExEvent(r, split, "start")}
    /\ ExGoto(r, "collate")
    /\ UNCHANGED <<trainVars, normVars, promptVars, plotVars, ex_prompts, ex_arrived, ex_buf,
                   ex_loc, ex_files, ex_err>>

\* lines 27-46: the collator; the strategy is looked at for the train split only
ExCollate(r) ==
    /\ ex_pc[r] = "collate"
    /\ IF ex_split[r] = "train" /\ ex_prompts \notin {"all", "randomize"}
         THEN /\ ExGoto(r, "failed")
              /\ ex_err' = [ex_err EXCEPT ![r] = StrategyError]
         ELSE /\ ExGoto(r, "items")
              /\ UNCHANGED ex_err
    /\ UNCHANGED <<trainVars, normVars, promptVars, plotVars, ex_prompts, ex_split, ex_arrived,
                   ex_buf, ex_loc, ex_files, ex_events>>

\* lines 48-59: the rank's own hidden states; save_dir made
ExItems(r) ==
    /\ ex_pc[r] = "items"
    /\ ex_loc' = [ex_loc EXCEPT ![r] =
                    [hiddens |-> LocalTensor(r, ex_split[r], "hiddens"),
                     labels  |-> LocalTensor(r, ex_split[r], "labels")]]
    /\ ExGoto(r, "open")
    /\ UNCHANGED <<trainVars, normVars, promptVars, plotVars, ex_prompts, ex_split, ex_arrived,
                   ex_buf, ex_files, ex_err, ex_events>>

\* line 61: open(..., "wb") creates the file or truncates it
ExOpen(r) ==
    /\ ex_pc[r] = "open"
    /\ ex_files' = [ex_files EXCEPT ![HiddensFile(ex_split[r])] = Truncated]
    /\ ex_events' = ex_events \cup {ExEvent(r, ex_split[r], "open")}
    /\ ExGoto(r, "gather_hiddens")
    /\ UNCHANGED <<trainVars, normVars, promptVars, plotVars, ex_prompts, ex_split, ex_arrived,
                   ex_buf, ex_loc, ex_err>>

\* lines 63, 67: maybe_all_gather entered with the rank's tensor
ExGatherEnter(r) ==
    /\ ex_pc[r] \in {"gather_hiddens", "gather_labels"}
    /\ LET what == IF ex_pc[r] = "gather_hiddens" THEN "hiddens" ELSE "labels"
       IN  /\ ex_buf' = ex_buf \cup {<<ex_arrived[r] + 1, r, ex_loc[r][what]>>}
           /\ ExGoto(r, IF what = "hiddens" THEN "in_gather_hiddens" ELSE "in_gather_labels")
    /\ ex_arrived' = [ex_arrived EXCEPT ![r] = @ + 1]
    /\ UNCHANGED <<trainVars, normVars, promptVars, plotVars, ex_prompts, ex_split, ex_loc,
                   ex_files, ex_err, ex_events>>

\* lines 63, 67: maybe_all_gather returns the tensors of all ranks
ExGatherLeave(r) ==
    /\ ex_pc[r] \in {"in_gather_hiddens", "in_gather_labels"}
    /\ CollectiveReady(ex_arrived[r])
    /\ IF ex_pc[r] = "in_gather_hiddens"
         THEN /\ ex_loc' = [ex_loc EXCEPT ![r].hiddens = Gathered(ex_arrived[r])]
              /\ ExGoto(r, "gather_labels")
         ELSE /\ ex_loc' = [ex_loc EXCEPT ![r].labels = Gathered(ex_arrived[r])]
              /\ ExGoto(r, "save")
    /\ UNCHANGED <<trainVars, normVars, promptVars, plotVars, ex_prompts, ex_split, ex_arrived,
                   ex_buf, ex_files, ex_err, ex_events>>

\* lines 69-70 and the end of the with block: rank 0 saves, every rank closes
ExSave(r) ==
    /\ ex_pc[r] = "save"
    /\ IF IsWriter(r)
         THEN /\ ex_files' = [ex_files EXCEPT ![HiddensFile(ex_split[r])] =
                                 Saved(<<ex_loc[r].hiddens, ex_loc[r].labels>>)]
              /\ ex_events' = ex_events \cup {ExEvent(r, ex_split[r], "write"),
                                              ExEvent(r, ex_split[r], "finish")}
         ELSE /\ ex_events' = ex_events \cup {ExEvent(r, ex_split[r], "finish")}
              /\ UNCHANGED ex_files
    /\ ExGoto(r, IF ex_split[r] = "train" THEN "barrier2" ELSE "meta")
    /\ UNCHANGED <<trainVars, normVars, promptVars, plotVars, ex_prompts, ex_split, ex_arrived,
                   ex_buf, ex_loc, ex_err>>

\* lines 110-115: args.json and model_config.json
ExWriteMeta(r) ==
    /\ ex_pc[r] = "meta"
    /\ IF IsWriter(r)
         THEN /\ ex_files' = [ex_files EXCEPT ![ArgsFile] = Saved(<<"args", ex_prompts>>),
                                              ![ModelConfigFile] = Saved(<<"model.config">>)]
              /\ ex_events' = ex_events \cup {ExEvent(r, ArgsFile, "write"),
                                              ExEvent(r, ModelConfigFile, "write")}
         ELSE UNCHANGED <<ex_files, ex_events>>
    /\ ExGoto(r, "done")
    /\ UNCHANGED <<trainVars, normVars, promptVars, plotVars, ex_prompts, ex_split, ex_arrived,
                   ex_buf, ex_loc, ex_err>>

\* lines 74-105: every rank about to enter the first barrier; save_dir may hold the
\* files of an earlier run
InitExtract ==
    /\ ex_prompts \in PromptStrategies
    /\ ex_pc = [r \in Ranks |-> "barrier1"]
    /\ ex_split = [r \in Ranks |-> "none"]
    /\ ex_arrived = [r \in Ranks |-> 0]
    /\ ex_buf = {}
    /\ ex_loc = [r \in Ranks |-> [hiddens |-> <<>>, labels |-> <<>>]]
    /\ ex_files \in [ExtractFiles -> {Absent, Stale}]
    /\ ex_err = [r \in Ranks |-> NoError]
    /\ ex_events = {}
    /\ TrainUnused
    /\ NormUnused
    /\ PromptsUnused
    /\ PlotUnused

NextExtract ==
    \/ \E r \in Ranks : ExBarrierEnter(r)
    \/ \E r \in Ranks : ExBarrierLeave(r)
    \/ \E r \in Ranks : ExCollate(r)
    \/ \E r \in Ranks : ExItems(r)
    \/ \E r \in Ranks : ExOpen(r)
    \/ \E r \in Ranks : ExGatherEnter(r)
    \/ \E r \in Ranks : ExGatherLeave(r)
    \/ \E r \in Ranks : ExSave(r)
    \/ \E r \in Ranks : ExWriteMeta(r)

SpecExtract == InitExtract /\ [][NextExtract]_vars

---------------------------------------------------------------------------
(* C14 *)

Did(r, target, op) == <<r, target, op>> \in ex_events

\* the tensors of all ranks for one split, in rank order
AllRanks(split, what) == [i \in 1..NRanks |-> <<what, split, i - 1>>]

GatheredContent(split) ==
    [state |-> "saved", data |-> <<AllRanks(split, "hiddens"), AllRanks(split, "labels")>>]

RunOver == \A r \in Ranks : ex_pc[r] = "done"

C14_State ==
    \* only rank 0 writes content, into the hiddens files and the two json files
    /\ \A r \in Ranks : \A f \in Splits \cup {"args.json", "model_config.json"} :
          Did(r, f, "write") => r = 0
    \* rank 0 writes a split's file only after every rank has opened it
    /\ \A sp \in Splits :
          Did(0, sp, "write") => \A r \in Ranks : Did(r, sp, "open")
    \* validation is started only after every rank has finished train
    /\ \A r \in Ranks :
          Did(r, "validation", "start") => \A q \in Ranks : Did(q, "train", "finish")
    \* after the run the files hold the gathered tensors
    /\ RunOver =>
          /\ \A sp \in Splits : ex_files[sp \o "_hiddens.pt"] = GatheredContent(sp)
          /\ ex_files["args.json"].state = "saved"
          /\ ex_files["model_config.json"].state = "saved"

\* what rank 0 has written into a split's file is not truncated afterwards
C14_WrittenStays ==
    \A sp \in Splits :
        Did(0, sp, "write") => ex_files'[sp \o "_hiddens.pt"] = ex_files[sp \o "_hiddens.pt"]

\* C14: in a multi-process extraction only rank 0 writes content into a split's hiddens
\* file, every rank's truncating open of it precedes that write under every
\* interleaving, no rank starts validation before all ranks have finished train, after
\* the run each hiddens file holds exactly the tensors gathered from all ranks, and
\* args.json and model_config.json are written by rank 0 only.
C14_RankZeroWritesLast ==
    /\ [](C14_State)
    /\ [][C14_WrittenStays]_vars

C14_Witness ==
    /\ RunOver
    /\ NRanks >= 2
    /\ \A r \in Ranks : \A sp \in Splits : Did(r, sp, "open")
    /\ \A sp \in Splits : ex_files[sp \o "_hiddens.pt"] = GatheredContent(sp)

=============================================================================
